---- MODULE Spec2Model ----
(***************************************************************************)
(* The shape-and-type inference analyser of src/src/analyser/mod.rs:       *)
(* the fact lattice and its unification, the analysed graph (nodes, edges, *)
(* adjacency lists, execution plan), hints, the propagation engine         *)
(* (try_step, run_step, run_two_passes, run) and prune_unused.             *)
(*                                                                         *)
(* args holds the facts handed to unify where unify is used by itself.     *)
(*                                                                         *)
(* Vectors are sequences: the element at Rust index i is at position i+1.  *)
(* Option<usize> is an integer, None being -1.  Result<T> is a record      *)
(* [ok, val]; a panic is the result "panic" of the call and ends the run.  *)
(***************************************************************************)
EXTENDS Integers, Sequences, FiniteSets

VARIABLES model, built, output, nodes, edges, prev_edges, next_edges, plan,
          current_pass, current_step, current_direction, ret, pool, hints_left,
          args

vars == <<model, built, output, nodes, edges, prev_edges, next_edges, plan,
          current_pass, current_step, current_direction, ret, pool, hints_left,
          args>>

analyser == <<output, nodes, edges, prev_edges, next_edges, plan,
              current_pass, current_step, current_direction>>

(***************************************************************************)
(* Bounds of the model.                                                    *)
(***************************************************************************)
\* Largest number of nodes of a model.
MaxNodes == 3
\* Largest number of (producer, slot) links of a model, all nodes together.
MaxLinks == 2
\* Calls to run_step and run_two_passes stop once current_pass reaches this.
MaxPass == 3
\* Largest number of hint calls of a run.
MaxHints == 2

None == -1

Max(a, b) == IF a >= b THEN a ELSE b

Ok(v) == [ok |-> TRUE, val |-> v]
Err == [ok |-> FALSE]

(***************************************************************************)
(* The fact lattice.                                                       *)
(***************************************************************************)
AnyFact == [tag |-> "Any"]
Only(v) == [tag |-> "Only", val |-> v]

ShapeOpen(d) == [open |-> TRUE, dims |-> d]
ShapeClosed(d) == [open |-> FALSE, dims |-> d]

\* TensorFact::new(): the fully unknown fact.
TensorFactNew == [datatype |-> AnyFact, shape |-> ShapeOpen(<<>>), value |-> AnyFact]

\* unify_datatype with the (Any, _) arm giving x instead of y.
unify_datatype_keeps_any(x, y) ==
    CASE y = AnyFact -> Ok(x)
      [] x = AnyFact -> Ok(x)
      [] x = y -> Ok(x)
      [] OTHER -> Err

unify_datatype(x, y) ==
    CASE y = AnyFact -> Ok(x)
      [] x = AnyFact -> Ok(y)
      [] x = y -> Ok(x)
      [] OTHER -> Err

\* UnifyDim with Left(d) accepted whether y is open or not.
UnifyDimLeftAlways(x, y, i) ==
    IF i <= Len(x.dims) /\ i <= Len(y.dims)
    THEN CASE y.dims[i] = AnyFact -> Ok(x.dims[i])
           [] x.dims[i] = AnyFact -> Ok(y.dims[i])
           [] x.dims[i] = y.dims[i] -> Ok(x.dims[i])
           [] OTHER -> Err
    ELSE IF i <= Len(x.dims)
    THEN Ok(x.dims[i])
    ELSE (IF x.open THEN Ok(y.dims[i]) ELSE Err)

\* UnifyDim with Right(d) giving an unknown dimension instead of d.
UnifyDimForgetsRight(x, y, i) ==
    IF i <= Len(x.dims) /\ i <= Len(y.dims)
    THEN CASE y.dims[i] = AnyFact -> Ok(x.dims[i])
           [] x.dims[i] = AnyFact -> Ok(y.dims[i])
           [] x.dims[i] = y.dims[i] -> Ok(x.dims[i])
           [] OTHER -> Err
    ELSE IF i <= Len(x.dims)
    THEN (IF y.open THEN Ok(x.dims[i]) ELSE Err)
    ELSE (IF x.open THEN Ok(AnyFact) ELSE Err)

\* One item of zip_longest: i is a position of x.dims, of y.dims or of both.
UnifyDim(x, y, i) ==
    IF i <= Len(x.dims) /\ i <= Len(y.dims)
    THEN CASE y.dims[i] = AnyFact -> Ok(x.dims[i])
           [] x.dims[i] = AnyFact -> Ok(y.dims[i])
           [] x.dims[i] = y.dims[i] -> Ok(x.dims[i])
           [] OTHER -> Err
    ELSE IF i <= Len(x.dims)
    THEN (IF y.open THEN Ok(x.dims[i]) ELSE Err)
    ELSE (IF x.open THEN Ok(y.dims[i]) ELSE Err)

\* collect::<Result<_>>() of the unified dimensions d, then open or closed.
CollectDims(d, open) ==
    IF \E i \in 1..Len(d) : ~d[i].ok
    THEN Err
    ELSE Ok([open |-> open, dims |-> [i \in 1..Len(d) |-> d[i].val]])

\* unify_shape with the branches of its last if swapped.
unify_shape_swapped(x, y) ==
    CollectDims([i \in 1..Max(Len(x.dims), Len(y.dims)) |-> UnifyDim(x, y, i)],
                ~(x.open /\ y.open))

\* unify_shape always giving ShapeFact::closed.
unify_shape_closes(x, y) ==
    CollectDims([i \in 1..Max(Len(x.dims), Len(y.dims)) |-> UnifyDim(x, y, i)],
                FALSE)

unify_shape(x, y) ==
    CollectDims([i \in 1..Max(Len(x.dims), Len(y.dims)) |-> UnifyDim(x, y, i)],
                x.open /\ y.open)

\* unify_value without the bail! on two different values.
unify_value_keeps_left(x, y) ==
    CASE y = AnyFact -> Ok(x)
      [] x = AnyFact -> Ok(y)
      [] OTHER -> Ok(x)

\* unify_value with the (Any, _) arm giving x instead of y.
unify_value_keeps_any(x, y) ==
    CASE y = AnyFact -> Ok(x)
      [] x = AnyFact -> Ok(x)
      [] x = y -> Ok(x)
      [] OTHER -> Err

unify_value(x, y) ==
    CASE y = AnyFact -> Ok(x)
      [] x = AnyFact -> Ok(y)
      [] x = y -> Ok(x)
      [] OTHER -> Err

\* The tensor fact of the three unified components, an error when one failed.
UnifiedTensor(dt, sh, va) ==
    IF dt.ok /\ sh.ok /\ va.ok
    THEN Ok([datatype |-> dt.val, shape |-> sh.val, value |-> va.val])
    ELSE Err

unify(x, y) ==
    UnifiedTensor(unify_datatype(x.datatype, y.datatype),
                  unify_shape(x.shape, y.shape),
                  unify_value(x.value, y.value))

(***************************************************************************)
(* The lattice order: a is at least as specific as b.                      *)
(***************************************************************************)
LeqAtom(a, b) == b = AnyFact \/ a = b

LeqShape(a, b) ==
    /\ Len(a.dims) >= Len(b.dims)
    /\ \A i \in 1..Len(b.dims) : LeqAtom(a.dims[i], b.dims[i])
    /\ (~b.open => ~a.open)

LeqFact(a, b) ==
    /\ LeqAtom(a.datatype, b.datatype)
    /\ LeqShape(a.shape, b.shape)
    /\ LeqAtom(a.value, b.value)

(***************************************************************************)
(* Models: node lists in which a node's id is its index.  A node with no   *)
(* input is a Source, with one an Identity, with two an Add.               *)
(***************************************************************************)
OpNameFor(k) == IF k = 0 THEN "Source" ELSE IF k = 1 THEN "Identity" ELSE "Add"

MkNode(i, ins) ==
    [id |-> i, name |-> i, op_name |-> OpNameFor(Len(ins)),
     inputs |-> [k \in 1..Len(ins) |-> <<ins[k], 0>>]]

InputLists(n) ==
    {<<>>} \cup {<<a>> : a \in 0..(n-1)}
           \cup {<<a, b>> : a \in 0..(n-1), b \in 0..(n-1)}

RECURSIVE SumLen(_)
SumLen(s) == IF s = <<>> THEN 0 ELSE Len(Head(s)) + SumLen(Tail(s))

Models ==
    UNION {{[i \in 1..n |-> MkNode(i - 1, ins[i])] :
              ins \in {f \in [1..n -> InputLists(n)] : SumLen(f) <= MaxLinks}} :
           n \in 1..MaxNodes}

\* The graphs the engine is run on: a chain, a node with two producers, and
\* a producer with two consumers.
EngineModels ==
    { <<MkNode(0, <<>>), MkNode(1, <<0>>)>>,
      <<MkNode(0, <<>>), MkNode(1, <<>>), MkNode(2, <<0, 1>>)>>,
      <<MkNode(0, <<>>), MkNode(1, <<0>>), MkNode(2, <<0>>)>> }

(***************************************************************************)
(* Plan::for_nodes: a topological order of the transitive predecessors of  *)
(* the target, leaves first; an error on a cycle or an unknown node.       *)
(***************************************************************************)
Producers(ns, i) == {ns[i + 1].inputs[k][1] : k \in 1..Len(ns[i + 1].inputs)}

RECURSIVE Needed(_, _, _)
Needed(ns, S, fuel) ==
    LET T == S \cup UNION {Producers(ns, i) : i \in {j \in S : j < Len(ns)}}
    IN IF fuel = 0 \/ T = S THEN S ELSE Needed(ns, T, fuel - 1)

MinOf(S) == CHOOSE m \in S : \A o \in S : m <= o

RECURSIVE PlanOrder(_, _, _)
PlanOrder(ns, needed, order) ==
    LET done == {order[k] : k \in 1..Len(order)}
        ready == {i \in needed \ done : Producers(ns, i) \subseteq done}
    IN IF needed \subseteq done THEN Ok(order)
       ELSE IF ready = {} THEN Err
       ELSE PlanOrder(ns, needed, Append(order, MinOf(ready)))

PlanForNodes(ns, target) ==
    LET needed == Needed(ns, {target}, Len(ns))
    IN IF \E i \in needed : i < 0 \/ i >= Len(ns)
       THEN Err
       ELSE PlanOrder(ns, needed, <<>>)

(***************************************************************************)
(* The operators' transfer functions (Op::infer_forward, infer_backward):  *)
(* Ok(Absent) when nothing is learned, Ok(Facts(..)) or Err.               *)
(***************************************************************************)
Absent == [some |-> FALSE]
Facts(fs) == [some |-> TRUE, facts |-> fs]

NoValue(f) == [f EXCEPT !.value = AnyFact]

\* The one output fact u of a binary operator, an error when its inputs clash.
OneOutput(u) == IF u.ok THEN Ok(Facts(<<u.val>>)) ELSE Err

infer_forward(op_name, sources) ==
    CASE op_name = "Source" -> Ok(Absent)
      [] op_name = "Identity" ->
           IF Len(sources) = 1 THEN Ok(Facts(<<sources[1]>>)) ELSE Err
      [] OTHER ->
           IF Len(sources) # 2 THEN Err
           ELSE OneOutput(unify(NoValue(sources[1]), NoValue(sources[2])))

infer_backward(op_name, sources) ==
    CASE op_name = "Source" -> Ok(Absent)
      [] op_name = "Identity" ->
           IF Len(sources) = 0 THEN Ok(Absent) ELSE Ok(Facts(<<sources[1]>>))
      [] OTHER ->
           IF Len(sources) = 0 THEN Ok(Absent)
           ELSE Ok(Facts(<<NoValue(sources[1]),
                           [NoValue(sources[1]) EXCEPT !.shape = ShapeOpen(<<>>)]>>))

(***************************************************************************)
(* detect_output                                                           *)
(***************************************************************************)
\* succs[i] after the two loops: the ids of the nodes that consume node i.
Succs(ns) ==
    [i \in 1..Len(ns) |->
        {ns[c].id : c \in {d \in 1..Len(ns) : (i - 1) \in Producers(ns, d - 1)}}]

detect_output(ns) ==
    LET free == {i \in 1..Len(ns) : Succs(ns)[i] = {}}
    IN IF free = {} THEN None ELSE MinOf(free) - 1

(***************************************************************************)
(* Analyser::new                                                           *)
(***************************************************************************)
\* The edge with its two ends exchanged.
MkEdgeReversed(id, from, out, to) ==
    [id |-> id, from_node |-> to, from_out |-> out, to_node |-> from,
     fact |-> TensorFactNew]

MkEdge(id, from, out, to) ==
    [id |-> id, from_node |-> from, from_out |-> out, to_node |-> to,
     fact |-> TensorFactNew]

Push(lists, i, x) == [lists EXCEPT ![i + 1] = Append(@, x)]

\* The input loop of one node, from its k-th input on.
RECURSIVE AddInputs(_, _, _)
AddInputs(g, node, k) ==
    IF k > Len(node.inputs) THEN g
    ELSE LET id == Len(g.edges)
             input == node.inputs[k]
         IN AddInputs([edges |-> Append(g.edges,
                                   MkEdge(id, input[1], input[2], node.id)),
                       prev |-> Push(g.prev, node.id, id),
                       next |-> Push(g.next, input[1], id)],
                      node, k + 1)

\* The node loop, from the i-th node on.
RECURSIVE AddNodes(_, _, _)
AddNodes(g, ns, i) ==
    IF i > Len(ns) THEN g ELSE AddNodes(AddInputs(g, ns[i], 1), ns, i + 1)

NewGraph(ns, out) ==
    LET empty == [i \in 1..(Len(ns) + 1) |-> <<>>]
        g == AddNodes([edges |-> <<>>, prev |-> empty, next |-> empty], ns, 1)
        special_edge_id == Len(g.edges)
    IN [edges |-> Append(g.edges, MkEdge(special_edge_id, out, 0, None)),
        prev |-> g.prev,
        next |-> Push(g.next, out, special_edge_id)]

\* new(model, out): "panic" when next_edges[output] is out of bounds, "err"
\* when the plan cannot be computed.
NewOutcome(ns, out) ==
    IF out > Len(ns) THEN "panic"
    ELSE IF ~PlanForNodes(ns, out).ok THEN "err" ELSE "ok"

(***************************************************************************)
(* Analyser::hint                                                          *)
(***************************************************************************)
RECURSIVE HintLoop(_, _, _, _)

\* self.edges[j].fact = unify(fact, &self.edges[j].fact)?, u the unified fact.
HintEdge(es, targets, fact, k, u) ==
    IF ~u.ok THEN [res |-> "err", edges |-> es]
    ELSE HintLoop([es EXCEPT ![targets[k] + 1].fact = u.val], targets, fact, k + 1)

\* The loop over next_edges[node], from its k-th entry on.
HintLoop(es, targets, fact, k) ==
    IF k > Len(targets) THEN [res |-> "ok", edges |-> es]
    ELSE IF targets[k] < 0 \/ targets[k] >= Len(es)
    THEN [res |-> "panic", edges |-> es]
    ELSE HintEdge(es, targets, fact, k, unify(fact, es[targets[k] + 1].fact))

HintNoNode(node) == node >= Len(next_edges)

\* hint over the edge list es.
HintOver(es, node, fact) ==
    IF HintNoNode(node) THEN [res |-> "err", edges |-> es]
    ELSE HintLoop(es, next_edges[node + 1], fact, 1)

hint(node, fact) == HintOver(edges, node, fact)

(***************************************************************************)
(* Analyser::try_step, for the engine state st = [edges, pass, step, dir,   *)
(* visits] over the nodes, adjacency lists and plan of the current state.  *)
(* visits records, for each try_step of the call, the plan entry it looked *)
(* up and its direction.                                                   *)
(***************************************************************************)
StepResult(res, changed, es) == [res |-> res, changed |-> changed, edges |-> es]

\* The node the step is for, as an index into nodes; None when plan[..] or
\* nodes[..] is out of bounds.
StepNodeIndex(st) ==
    IF st.step >= Len(plan) THEN None
    ELSE LET i == IF st.dir THEN plan[st.step + 1]
                  ELSE plan[Len(plan) - 1 - st.step + 1]
         IN IF i < 0 \/ i >= Len(nodes) THEN None ELSE i

FactsOf(es, ids) == [k \in 1..Len(ids) |-> es[ids[k] + 1].fact]

\* try_step with changed set for every target edge.
EdgeChangedAlways(unified, old) == TRUE

EdgeChanged(unified, old) == unified # old

RECURSIVE TargetLoop(_, _, _, _, _, _)

\* One target edge j, u the unification of the inferred fact with its fact.
TargetEdge(es, targets, inferred, dir, k, changed, j, u) ==
    IF ~u.ok THEN StepResult("err", changed, es)
    ELSE IF EdgeChanged(u.val, es[j + 1].fact)
    THEN TargetLoop([es EXCEPT ![j + 1].fact = u.val],
                    targets, inferred, dir, k + 1, TRUE)
    ELSE TargetLoop(es, targets, inferred, dir, k + 1, changed)

\* The loop handing the first inferred fact to every target edge in both
\* directions.
TargetLoopFirstFact(es, targets, inferred, dir, k, changed) ==
    IF k > Len(targets) THEN StepResult("ok", changed, es)
    ELSE IF dir /\ Len(inferred) > 1 THEN StepResult("panic", changed, es)
    ELSE IF Len(inferred) = 0 THEN StepResult("panic", changed, es)
    ELSE TargetEdge(es, targets, inferred, dir, k, changed, targets[k],
                    unify(inferred[1], es[targets[k] + 1].fact))

\* The loop over target[node.id], from its k-th entry on.
TargetLoop(es, targets, inferred, dir, k, changed) ==
    IF k > Len(targets) THEN StepResult("ok", changed, es)
    ELSE IF dir /\ Len(inferred) > 1 THEN StepResult("panic", changed, es)
    ELSE IF (dir /\ Len(inferred) = 0) \/ (~dir /\ k > Len(inferred))
    THEN StepResult("panic", changed, es)
    ELSE TargetEdge(es, targets, inferred, dir, k, changed, targets[k],
                    unify(IF dir THEN inferred[1] ELSE inferred[k],
                          es[targets[k] + 1].fact))

\* node.op.infer_forward(sources) or node.op.infer_backward(sources).
Infer(dir, op_name, sources) ==
    IF dir THEN infer_forward(op_name, sources) ELSE infer_backward(op_name, sources)

\* try_step from the inferred facts on.
StepInferred(st, targets, inferred) ==
    IF ~inferred.ok THEN StepResult("err", FALSE, st.edges)
    ELSE IF ~inferred.val.some THEN StepResult("ok", FALSE, st.edges)
    ELSE TargetLoop(st.edges, targets, inferred.val.facts, st.dir, 1, FALSE)

\* try_step for the node, with the adjacency lists it reads and writes.
StepNode(st, node, source, target) ==
    IF \/ node.id < 0
       \/ node.id >= Len(source)
       \/ \E k \in 1..Len(source[node.id + 1]) :
              source[node.id + 1][k] >= Len(st.edges)
       \/ \E m \in 1..Len(target[node.id + 1]) :
              target[node.id + 1][m] >= Len(st.edges)
    THEN StepResult("panic", FALSE, st.edges)
    ELSE StepInferred(st, target[node.id + 1],
                      Infer(st.dir, node.op_name,
                            FactsOf(st.edges, source[node.id + 1])))

\* try_step for the node at index ni of nodes.
StepAt(st, ni) ==
    IF ni = None THEN StepResult("panic", FALSE, st.edges)
    ELSE StepNode(st, nodes[ni + 1],
                  IF st.dir THEN prev_edges ELSE next_edges,
                  IF st.dir THEN next_edges ELSE prev_edges)

try_step(st) == StepAt(st, StepNodeIndex(st))

(***************************************************************************)
(* Analyser::run_step, run_two_passes and run.  Each gives                 *)
(* [res, changed, st]: res is "ok", "err" or "panic", st the engine state  *)
(* the call leaves behind.                                                 *)
(***************************************************************************)
Engine == [edges |-> edges, pass |-> current_pass, step |-> current_step,
           dir |-> current_direction, visits |-> <<>>]

\* The plan entry try_step reads, None when the index is out of bounds.
PlanEntry(st) ==
    IF st.step >= Len(plan) THEN None
    ELSE IF st.dir THEN plan[st.step + 1] ELSE plan[Len(plan) - 1 - st.step + 1]

Visit(st) == [st EXCEPT !.visits = Append(@, [node |-> PlanEntry(st), forward |-> st.dir])]

Outcome(res, changed, st) == [res |-> res, changed |-> changed, st |-> st]

\* Switch to the next step.
NextStep(st) ==
    IF st.step + 1 = Len(plan)
    THEN [st EXCEPT !.pass = @ + 1, !.dir = ~@, !.step = 0]
    ELSE [st EXCEPT !.step = @ + 1]

\* run_step switching to the next step whatever try_step gave.
StepDoneAlways(seen, r) ==
    Outcome(r.res, r.res = "ok" /\ r.changed, NextStep([seen EXCEPT !.edges = r.edges]))

\* run_step after try_step gave r: the ? and the switch to the next step.
StepDone(seen, r) ==
    IF r.res # "ok" THEN Outcome(r.res, FALSE, [seen EXCEPT !.edges = r.edges])
    ELSE Outcome("ok", r.changed, NextStep([seen EXCEPT !.edges = r.edges]))

run_step(st) == StepDone(Visit(st), try_step(st))

RECURSIVE PassLoop(_, _, _)

\* if self.run_step()? { changed = true }, r the result of run_step.
PassStep(r, n, changed) ==
    IF r.res # "ok" THEN r ELSE PassLoop(r.st, n - 1, changed \/ r.changed)

\* for _ in 0..self.plan.len() { .. }, with n steps left.
PassLoop(st, n, changed) ==
    IF n = 0 THEN Outcome("ok", changed, st) ELSE PassStep(run_step(st), n, changed)

FirstPassStart(st) == [st EXCEPT !.step = 0, !.visits = <<>>]

\* The second loop of run_two_passes, first the result of the first.
SecondPass(first) ==
    IF first.res # "ok" THEN first
    ELSE PassLoop([first.st EXCEPT !.step = 0], Len(plan), first.changed)

run_two_passes(st) == SecondPass(PassLoop(FirstPassStart(st), Len(plan), FALSE))

\* What run returns: its result, the number of sweeps and the state it leaves.
RunOut(res, sweeps, st) ==
    [res |-> res, changed |-> FALSE, sweeps |-> sweeps, st |-> st]

\* run returning after its first run_two_passes, changed or not.
RunLoopOnce(st, sweeps, fuel) ==
    RunOut(run_two_passes(st).res, sweeps + 1, run_two_passes(st).st)

RECURSIVE RunLoop(_, _, _)

\* if !self.run_two_passes()? { return Ok(()) }, r the result of the sweep; it
\* gives up with "diverged" when fuel sweeps have changed an edge.
RunSweep(r, sweeps, fuel) ==
    IF r.res # "ok" THEN RunOut(r.res, sweeps + 1, r.st)
    ELSE IF ~r.changed THEN RunOut("ok", sweeps + 1, r.st)
    ELSE IF fuel = 0 THEN RunOut("diverged", sweeps + 1, r.st)
    ELSE RunLoop(r.st, sweeps + 1, fuel - 1)

\* loop { .. }, counting the sweeps.
RunLoop(st, sweeps, fuel) == RunSweep(run_two_passes(st), sweeps, fuel)

RunStart(st) == [st EXCEPT !.pass = 0]

(***************************************************************************)
(* Analyser::reset_plan                                                    *)
(***************************************************************************)
reset_plan == PlanForNodes(nodes, output)

(***************************************************************************)
(* Analyser::prune_unused                                                  *)
(***************************************************************************)
RemoveAt(s, i) == SubSeq(s, 1, i) \o SubSeq(s, i + 2, Len(s))

SeqToSet(s) == {s[k] : k \in 1..Len(s)}

\* for &i in &self.plan { node_used[i] = true }
NodeUsed(ns, pl) == [i \in 1..Len(ns) |-> (i - 1) \in SeqToSet(pl)]

\* The edges a retained node marks as used.
MarkedBy(prev, next, at) == SeqToSet(prev[at + 1]) \cup SeqToSet(next[at + 1])

\* The node removal loop, for i in i..n-1.  g = [nodes, prev, next, deleted,
\* node_mapping, edge_used (the set of marked edges), panic].
RECURSIVE RemoveNodes(_, _, _, _)
RemoveNodes(g, used, i, n) ==
    IF i >= n \/ g.panic THEN g
    ELSE LET at == i - g.deleted
         IN IF at >= Len(g.nodes) \/ at >= Len(g.prev) \/ at >= Len(g.next)
            THEN [g EXCEPT !.panic = TRUE]
            ELSE IF ~used[i + 1]
            THEN RemoveNodes([g EXCEPT !.nodes = RemoveAt(@, at),
                                       !.prev = RemoveAt(@, at),
                                       !.next = RemoveAt(@, at),
                                       !.deleted = @ + 1],
                             used, i + 1, n)
            ELSE RemoveNodes([g EXCEPT !.node_mapping[i + 1] = at,
                                       !.edge_used = @ \cup MarkedBy(g.prev, g.next, at)],
                             used, i + 1, n)

\* node_mapping[i].unwrap() panics on an index out of bounds and on None.
Unmapped(mapping, i) == i < 0 \/ i >= Len(mapping) \/ mapping[i + 1] = None

\* The node update without the rewrite of the inputs.
RenumberNodeIdOnly(node, mapping) == [node EXCEPT !.id = mapping[node.id + 1]]

RenumberNode(node, mapping) ==
    [node EXCEPT !.id = mapping[node.id + 1],
                 !.inputs = [k \in 1..Len(node.inputs) |->
                               <<mapping[node.inputs[k][1] + 1], node.inputs[k][2]>>]]

NodePanics(node, mapping) ==
    \/ Unmapped(mapping, node.id)
    \/ \E k \in 1..Len(node.inputs) : Unmapped(mapping, node.inputs[k][1])

RenumberEnd(i, mapping) == IF i = None THEN None ELSE mapping[i + 1]

RenumberEdge(edge, mapping) ==
    [edge EXCEPT !.from_node = RenumberEnd(edge.from_node, mapping),
                 !.to_node = RenumberEnd(edge.to_node, mapping)]

EdgePanics(edge, mapping) ==
    \/ edge.from_node # None /\ edge.from_node >= Len(mapping)
    \/ edge.to_node # None /\ edge.to_node >= Len(mapping)

\* The edge removal loop, for i in i..len-1: h = [edges (those kept so far),
\* deleted, edge_mapping].
EdgeIsUsed(edge_used, i) == i \in edge_used

RECURSIVE RemoveEdges(_, _, _, _)
RemoveEdges(h, es, edge_used, i) ==
    IF i >= Len(es) THEN h
    ELSE IF ~EdgeIsUsed(edge_used, i)
    THEN RemoveEdges([h EXCEPT !.deleted = @ + 1], es, edge_used, i + 1)
    ELSE RemoveEdges([h EXCEPT !.edges = Append(@, es[i + 1]),
                               !.edge_mapping[i + 1] = i - h.deleted],
                     es, edge_used, i + 1)

\* The adjacency lists left with the old edge indices.
KeepList(ids, edge_mapping) == ids

RenumberList(ids, edge_mapping) == [k \in 1..Len(ids) |-> edge_mapping[ids[k] + 1]]

ListPanics(ids, edge_mapping) == \E k \in 1..Len(ids) : Unmapped(edge_mapping, ids[k])

\* [panic, nodes, edges, prev, next, node_mapping]
prune_unused ==
    LET n == Len(nodes)
        g0 == [nodes |-> nodes, prev |-> prev_edges, next |-> next_edges,
               deleted |-> 0, node_mapping |-> [i \in 1..n |-> None],
               edge_used |-> {}, panic |-> FALSE]
        bad == [panic |-> TRUE, nodes |-> nodes, edges |-> edges,
                prev |-> prev_edges, next |-> next_edges, node_mapping |-> <<>>]
    IN IF \E k \in 1..Len(plan) : plan[k] < 0 \/ plan[k] >= n THEN bad
       ELSE
       LET g == RemoveNodes(g0, NodeUsed(nodes, plan), 0, n)
       IN IF g.panic \/ \E j \in g.edge_used : j >= Len(edges) THEN bad
          ELSE IF \E k \in 1..Len(g.nodes) : NodePanics(g.nodes[k], g.node_mapping)
          THEN bad
          ELSE IF \E k \in 1..Len(edges) : EdgePanics(edges[k], g.node_mapping)
          THEN bad
          ELSE
          LET ns == [k \in 1..Len(g.nodes) |-> RenumberNode(g.nodes[k], g.node_mapping)]
              es == [k \in 1..Len(edges) |-> RenumberEdge(edges[k], g.node_mapping)]
              h == RemoveEdges([edges |-> <<>>, deleted |-> 0,
                                edge_mapping |-> [k \in 1..Len(es) |-> None]],
                               es, g.edge_used, 0)
          IN IF \E k \in 1..Len(ns) :
                   ListPanics(g.prev[k], h.edge_mapping) \/ ListPanics(g.next[k], h.edge_mapping)
             THEN bad
             ELSE [panic |-> FALSE, nodes |-> ns, edges |-> h.edges,
                   prev |-> [k \in 1..Len(g.prev) |->
                               IF k <= Len(ns) THEN RenumberList(g.prev[k], h.edge_mapping)
                               ELSE g.prev[k]],
                   next |-> [k \in 1..Len(g.next) |->
                               IF k <= Len(ns) THEN RenumberList(g.next[k], h.edge_mapping)
                               ELSE g.next[k]],
                   node_mapping |-> g.node_mapping]

(***************************************************************************)
(* The facts hints are drawn from.                                         *)
(***************************************************************************)
\* Two tensor values; a value has a datum type and a shape of its own.
Tensor1 == [dt |-> "F32", shape |-> <<1>>, data |-> <<0>>]
Tensor2 == [dt |-> "F32", shape |-> <<2>>, data |-> <<0, 0>>]

Fact(dt, sh, va) == [datatype |-> dt, shape |-> sh, value |-> va]

HintFacts ==
    { Fact(Only("F32"), ShapeOpen(<<>>), AnyFact),
      Fact(Only("F64"), ShapeOpen(<<AnyFact, Only(2)>>), AnyFact),
      Fact(AnyFact, ShapeClosed(<<Only(1), AnyFact>>), AnyFact),
      Fact(Only("F32"), ShapeClosed(<<Only(1)>>), Only(Tensor1)),
      Fact(AnyFact, ShapeOpen(<<>>), Only(Tensor2)) }

\* The one fact hints give where the graphs vary.
GraphHintFacts == {Fact(Only("F32"), ShapeClosed(<<Only(1)>>), AnyFact)}

\* The largest rank a hint gives an edge; the operators only copy and unify.
RankCap ==
    LET ranks == {Len(f.shape.dims) : f \in pool}
    IN CHOOSE r \in ranks : \A q \in ranks : q <= r

(***************************************************************************)
(* How far a fact is from fully known: every strict tightening lowers it.  *)
(***************************************************************************)
AtomMeasure(a) == IF a = AnyFact THEN 1 ELSE 0

RECURSIVE Sum(_)
Sum(s) == IF s = <<>> THEN 0 ELSE Head(s) + Sum(Tail(s))

ShapeMeasure(sh) ==
    Sum([i \in 1..Len(sh.dims) |-> AtomMeasure(sh.dims[i])])
    + (IF sh.open THEN 1 + 2 * (RankCap - Len(sh.dims)) ELSE 0)

FactMeasure(f) == AtomMeasure(f.datatype) + ShapeMeasure(f.shape) + AtomMeasure(f.value)

Measure(es) == Sum([k \in 1..Len(es) |-> FactMeasure(es[k].fact)])

(***************************************************************************)
(* The state machine.  ret is the last call and what it returned.          *)
(***************************************************************************)
Ret(op, res, changed, val) ==
    [op |-> op, res |-> res, changed |-> changed, val |-> val, visits |-> <<>>]

RetEngine(op, r, val) ==
    [op |-> op, res |-> r.res, changed |-> r.changed, val |-> val,
     visits |-> r.st.visits]

Running == ret.res # "panic"

InitWith(models, facts, hints) ==
    /\ model \in models
    /\ pool = facts
    /\ hints_left = hints
    /\ args = <<>>
    /\ built = FALSE
    /\ output = 0
    /\ nodes = <<>>
    /\ edges = <<>>
    /\ prev_edges = <<>>
    /\ next_edges = <<>>
    /\ plan = <<>>
    /\ current_pass = 0
    /\ current_step = 0
    /\ current_direction = TRUE
    /\ ret = Ret("init", "ok", FALSE, <<>>)

Init == InitWith(EngineModels, HintFacts, MaxHints)

InitGraph == InitWith(Models, GraphHintFacts, 1)

env == <<model, pool, hints_left, args>>

DetectOutput ==
    /\ Running /\ ~built
    /\ ret' = Ret("detect_output", "ok", FALSE, <<detect_output(model)>>)
    /\ UNCHANGED <<env, built, analyser>>

New(out) ==
    /\ Running /\ ~built
    /\ LET o == NewOutcome(model, out)
       IN IF o = "ok"
          THEN LET g == NewGraph(model, out)
               IN /\ built' = TRUE
                  /\ output' = out
                  /\ nodes' = model
                  /\ edges' = g.edges
                  /\ prev_edges' = g.prev
                  /\ next_edges' = g.next
                  /\ plan' = PlanForNodes(model, out).val
                  /\ current_pass' = 0
                  /\ current_step' = 0
                  /\ current_direction' = TRUE
                  /\ ret' = Ret("new", "ok", FALSE, <<out>>)
          ELSE /\ ret' = Ret("new", o, FALSE, <<out>>)
               /\ UNCHANGED <<built, analyser>>
    /\ UNCHANGED env

Hint(node, fact) ==
    /\ Running /\ built /\ hints_left > 0
    /\ hints_left' = hints_left - 1
    /\ LET r == hint(node, fact)
       IN /\ edges' = r.edges
          /\ ret' = Ret("hint", r.res, FALSE, <<node>>)
    /\ UNCHANGED <<model, pool, args, built, output, nodes, prev_edges, next_edges,
                   plan, current_pass, current_step, current_direction>>

SetEngine(st) ==
    /\ edges' = st.edges
    /\ current_pass' = st.pass
    /\ current_step' = st.step
    /\ current_direction' = st.dir

RunStep ==
    /\ Running /\ built /\ current_pass < MaxPass
    /\ LET r == run_step(Engine)
       IN /\ SetEngine(r.st)
          /\ ret' = RetEngine("run_step", r, <<>>)
    /\ UNCHANGED <<env, built, output, nodes, prev_edges, next_edges, plan>>

RunTwoPasses ==
    /\ Running /\ built /\ current_pass < MaxPass
    /\ LET r == run_two_passes(Engine)
       IN /\ SetEngine(r.st)
          /\ ret' = RetEngine("run_two_passes", r, <<>>)
    /\ UNCHANGED <<env, built, output, nodes, prev_edges, next_edges, plan>>

Run ==
    /\ Running /\ built
    /\ LET r == RunLoop(RunStart(Engine), 0, Measure(edges))
       IN /\ SetEngine(r.st)
          /\ ret' = RetEngine("run", r, <<r.sweeps>>)
    /\ UNCHANGED <<env, built, output, nodes, prev_edges, next_edges, plan>>

ResetPlan ==
    /\ Running /\ built
    /\ LET r == reset_plan
       IN IF r.ok
          THEN plan' = r.val /\ ret' = Ret("reset_plan", "ok", FALSE, <<>>)
          ELSE plan' = plan /\ ret' = Ret("reset_plan", "err", FALSE, <<>>)
    /\ UNCHANGED <<env, built, output, nodes, edges, prev_edges, next_edges,
                   current_pass, current_step, current_direction>>

PruneUnused ==
    /\ Running /\ built
    /\ LET r == prune_unused
       IN IF r.panic
          THEN /\ ret' = Ret("prune_unused", "panic", FALSE, <<>>)
               /\ UNCHANGED <<nodes, edges, prev_edges, next_edges>>
          ELSE /\ nodes' = r.nodes
               /\ edges' = r.edges
               /\ prev_edges' = r.prev
               /\ next_edges' = r.next
               /\ ret' = Ret("prune_unused", "ok", FALSE, r.node_mapping)
    /\ UNCHANGED <<env, built, output, plan,
                   current_pass, current_step, current_direction>>

Next ==
    \/ DetectOutput
    \/ \E out \in 0..(Len(model) + 1) : New(out)
    \/ \E node \in 0..(Len(nodes) + 1), fact \in pool : Hint(node, fact)
    \/ RunStep
    \/ RunTwoPasses
    \/ Run
    \/ ResetPlan
    \/ PruneUnused

Spec == Init /\ [][Next]_vars

SpecGraph == InitGraph /\ [][Next]_vars

(***************************************************************************)
(* unify by itself: two facts, their unification, and the unification of   *)
(* its result with a third fact.                                           *)
(***************************************************************************)
\* Largest rank of the shapes handed to unify.
MaxRank == 2

DataTypes == {AnyFact, Only("F32"), Only("F64")}

Dims == {AnyFact, Only(1), Only(2)}

Shapes ==
    {[open |-> o, dims |-> d] :
        o \in BOOLEAN, d \in UNION {[1..n -> Dims] : n \in 0..MaxRank}}

Values == {AnyFact, Only(Tensor1), Only(Tensor2)}

\* Every datum type with every value, every shape, and the mixed facts of
\* the hints.
UnifyFacts ==
    {Fact(dt, ShapeOpen(<<>>), va) : dt \in DataTypes, va \in Values}
    \cup {Fact(AnyFact, sh, AnyFact) : sh \in Shapes}
    \cup HintFacts

\* A Result<TensorFact> as the value of a call.
RetUnify(op, u) ==
    [op |-> op, res |-> IF u.ok THEN "ok" ELSE "err", changed |-> FALSE,
     val |-> IF u.ok THEN <<u.val>> ELSE <<>>, visits |-> <<>>]

InitUnify ==
    /\ args \in UnifyFacts \X UnifyFacts
    /\ model = <<>>
    /\ pool = {}
    /\ hints_left = 0
    /\ built = FALSE
    /\ output = 0
    /\ nodes = <<>>
    /\ edges = <<>>
    /\ prev_edges = <<>>
    /\ next_edges = <<>>
    /\ plan = <<>>
    /\ current_pass = 0
    /\ current_step = 0
    /\ current_direction = TRUE
    /\ ret = Ret("init", "ok", FALSE, <<>>)

\* unify(&a, &b) for the two facts of args.
Unify ==
    /\ ret.op = "init" /\ Len(args) = 2
    /\ ret' = RetUnify("unify", unify(args[1], args[2]))
    /\ UNCHANGED <<env, built, analyser>>

\* unify(&unify(&a, &b)?, &c).
UnifyThen(c) ==
    /\ ret.op = "unify" /\ ret.res = "ok"
    /\ args' = Append(args, c)
    /\ ret' = RetUnify("unify_then", unify(ret.val[1], c))
    /\ UNCHANGED <<model, pool, hints_left, built, analyser>>

NextUnify ==
    \/ Unify
    \/ \E c \in UnifyFacts : UnifyThen(c)

SpecUnify == InitUnify /\ [][NextUnify]_vars

(***************************************************************************)
(* Properties.                                                             *)
(***************************************************************************)
EngineCalls == {"hint", "run_step", "run_two_passes", "run"}

\* C1: every call to hint, run_step, run_two_passes or run, whether it
\* succeeds or fails, leaves each edge's fact at least as specific as it
\* was: an Only(x) datum type, dimension or value stays Only(x), a closed
\* shape stays closed, and a shape keeps all its dimensions.
C1_FactsNeverDowngrade ==
    [][ret'.op \in EngineCalls =>
          /\ Len(edges') = Len(edges)
          /\ \A k \in 1..Len(edges) : LeqFact(edges'[k].fact, edges[k].fact)]_vars

\* A failing run that tightened an edge to a closed shape before it failed.
C1_Witness ==
    /\ ret.op = "run" /\ ret.res = "err"
    /\ \E k \in 1..Len(edges) :
          /\ edges[k].from_node # None /\ nodes[edges[k].from_node + 1].op_name # "Source"
          /\ ~edges[k].fact.shape.open

\* Every plan entry is the index of a node.
PlanFits == \A k \in 1..Len(plan) : plan[k] >= 0 /\ plan[k] < Len(nodes)

C3_FixedPoint ==
    (ret.op = "run" /\ ret.res = "ok") =>
        LET r == run_two_passes(Engine)
        IN r.res = "ok" /\ ~r.changed /\ r.st.edges = edges

\* A successful run whose first sweep changed an edge.
C3_Witness == ret.op = "run" /\ ret.res = "ok" /\ ret.val[1] >= 2

InPlan(i) == i \in SeqToSet(plan)

\* C4: prune_unused maps every node of the plan to its new position, where
\* it has that position as id, the same name and op_name and its inputs
\* renumbered by the mapping; every other node maps to None and is removed;
\* the retained nodes keep their order.
C4_PruneKeepsPlanNodes ==
    [][(ret'.op = "prune_unused" /\ ret'.res = "ok") =>
          LET m == ret'.val
          IN /\ Len(m) = Len(nodes)
             /\ Len(nodes') = Cardinality({i \in 0..(Len(nodes) - 1) : InPlan(i)})
             /\ \A i \in 0..(Len(nodes) - 1) :
                   IF InPlan(i)
                   THEN /\ m[i + 1] # None /\ m[i + 1] < Len(nodes')
                        /\ nodes'[m[i + 1] + 1].id = m[i + 1]
                        /\ nodes'[m[i + 1] + 1].name = nodes[i + 1].name
                        /\ nodes'[m[i + 1] + 1].op_name = nodes[i + 1].op_name
                        /\ nodes'[m[i + 1] + 1].inputs =
                              [k \in 1..Len(nodes[i + 1].inputs) |->
                                  <<m[nodes[i + 1].inputs[k][1] + 1],
                                    nodes[i + 1].inputs[k][2]>>]
                   ELSE m[i + 1] = None
             /\ \A i, j \in 0..(Len(nodes) - 1) :
                   (InPlan(i) /\ InPlan(j) /\ i < j) => m[i + 1] < m[j + 1]]_vars

\* A prune that removed a node in front of a retained node with an input.
C4_Witness ==
    /\ ret.op = "prune_unused" /\ ret.res = "ok"
    /\ \E i \in 1..Len(ret.val) : \E j \in 1..Len(ret.val) :
          /\ i < j /\ ret.val[i] = None /\ ret.val[j] # None
          /\ nodes[ret.val[j] + 1].inputs # <<>>

EndsRetained(e, m) ==
    /\ e.from_node = None \/ m[e.from_node + 1] # None
    /\ e.to_node = None \/ m[e.to_node + 1] # None

\* C5: an edge survives prune_unused exactly when every endpoint it has is
\* a retained node: the edge list afterwards is the list of those edges, in
\* order, with their endpoints renumbered.
C5_EdgeSurvivesIffEndsRetained ==
    [][(ret'.op = "prune_unused" /\ ret'.res = "ok") =>
          LET m == ret'.val
              kept == SelectSeq(edges, LAMBDA e : EndsRetained(e, m))
          IN edges' = [k \in 1..Len(kept) |-> RenumberEdge(kept[k], m)]]_vars

\* C6: prune_unused never panics.
C6_PruneInfallible == ret.op = "prune_unused" => ret.res = "ok"

AdjacencyConsistent ==
    /\ \A k \in 1..Len(edges) :
          /\ edges[k].from_node # None =>
                /\ edges[k].from_node < Len(next_edges)
                /\ (k - 1) \in SeqToSet(next_edges[edges[k].from_node + 1])
          /\ edges[k].to_node # None =>
                /\ edges[k].to_node < Len(prev_edges)
                /\ (k - 1) \in SeqToSet(prev_edges[edges[k].to_node + 1])
    /\ \A n \in 1..Len(prev_edges) : \A k \in 1..Len(prev_edges[n]) :
          /\ prev_edges[n][k] >= 0 /\ prev_edges[n][k] < Len(edges)
          /\ edges[prev_edges[n][k] + 1].to_node = n - 1
    /\ \A n \in 1..Len(next_edges) : \A k \in 1..Len(next_edges[n]) :
          /\ next_edges[n][k] >= 0 /\ next_edges[n][k] < Len(edges)
          /\ edges[next_edges[n][k] + 1].from_node = n - 1

\* C7: after construction and after every later operation each edge is
\* listed in next_edges of its from_node and in prev_edges of its to_node,
\* and every index in an adjacency list of node n is the position of an edge
\* that leaves, respectively enters, n.
C7_AdjacencyConsistent == built => AdjacencyConsistent

\* A prune that removed an edge in front of a retained edge.
C7_Witness ==
    /\ ret.op = "prune_unused" /\ ret.res = "ok"
    /\ \E k \in 1..Len(edges) : edges[k].id > k - 1

Rev(s) == [k \in 1..Len(s) |-> s[Len(s) + 1 - k]]

ForwardThenBackward ==
    [k \in 1..Len(plan) |-> [node |-> plan[k], forward |-> TRUE]]
    \o [k \in 1..Len(plan) |-> [node |-> Rev(plan)[k], forward |-> FALSE]]

\* C8: every call to run_two_passes visits the plan's nodes in plan order
\* with forward inference and then in reverse plan order with backward
\* inference (all of them when it succeeds, up to the failing step when it
\* fails).
C8_ForwardThenBackward ==
    ret.op \in {"run_two_passes", "run"} =>
        /\ Len(ret.visits) <= 2 * Len(plan)
        /\ ret.visits = SubSeq(ForwardThenBackward, 1, Len(ret.visits))
        /\ ret.res = "ok" => Len(ret.visits) = 2 * Len(plan)

\* C9: hint(node, fact) with node >= number of nodes returns an error and
\* changes no edge fact.
C9_HintUnknownNodeErrs ==
    [][(ret'.op = "hint" /\ ret'.val[1] >= Len(nodes)) =>
          (ret'.res = "err" /\ edges' = edges)]_vars

\* The node no node consumes when there is exactly one, None otherwise.
UniqueSink(ns) ==
    LET free == {i \in 1..Len(ns) : Succs(ns)[i] = {}}
    IN IF Cardinality(free) = 1 THEN (CHOOSE i \in free : TRUE) - 1 ELSE None

\* C10: detect_output returns the node no node consumes when there is
\* exactly one, and None when there is none or more than one.
C10_DetectOutputUnique ==
    ret.op = "detect_output" => ret.val[1] = UniqueSink(model)

\* The closed shape of a tensor value.
ShapeOfValue(v) == ShapeClosed([i \in 1..Len(v.shape) |-> Only(v.shape[i])])

\* A fact whose value, when known, agrees with its datum type and its shape.
ValueConsistent(f) ==
    f.value # AnyFact =>
        /\ f.datatype \in {AnyFact, Only(f.value.val.dt)}
        /\ unify_shape(f.shape, ShapeOfValue(f.value.val)).ok

\* C11: in every reachable state an edge whose value fact is Only(v) has a
\* datum type that is Any or v's type and a shape that v's shape unifies with.
C11_ValueConsistent == \A k \in 1..Len(edges) : ValueConsistent(edges[k].fact)

\* pl lists every node of ns once, each after its producers, and ends in root.
PlanOver(pl, ns, root) ==
    /\ Len(pl) = Len(ns)
    /\ SeqToSet(pl) = 0..(Len(ns) - 1)
    /\ \A k \in 1..Len(pl) :
          Producers(ns, pl[k]) \subseteq {pl[q] : q \in 1..(k - 1)}
    /\ pl # <<>> /\ pl[Len(pl)] = root

\* C12: reset_plan called after a prune_unused that returned succeeds, and
\* the plan it computes is a topological order of exactly the retained nodes
\* that ends in the new id of the node that was the output before the prune.
C12_ResetPlanAfterPrune ==
    [][(ret.op = "prune_unused" /\ ret.res = "ok" /\ ret'.op = "reset_plan") =>
          /\ ret'.res = "ok"
          /\ output < Len(ret.val)
          /\ PlanOver(plan', nodes, ret.val[output + 1])]_vars

\* C13: unify is commutative, on tensor facts and on each component: the
\* two orders fail together, and when they succeed they give the same fact.
C13_UnifyCommutative ==
    ret.op = "unify" =>
        /\ ret = RetUnify("unify", unify(args[2], args[1]))
        /\ unify_datatype(args[1].datatype, args[2].datatype)
              = unify_datatype(args[2].datatype, args[1].datatype)
        /\ unify_shape(args[1].shape, args[2].shape)
              = unify_shape(args[2].shape, args[1].shape)
        /\ unify_value(args[1].value, args[2].value)
              = unify_value(args[2].value, args[1].value)

\* Two different facts whose unification is neither of them.
C13_Witness ==
    /\ ret.op = "unify" /\ ret.res = "ok"
    /\ ret.val[1] # args[1] /\ ret.val[1] # args[2]

\* unify(a, unify(b, c)?) for the three facts of args.
UnifyRight ==
    IF unify(args[2], args[3]).ok
    THEN unify(args[1], unify(args[2], args[3]).val)
    ELSE Err

\* C14: unify is associative: when unify(unify(a, b), c) and
\* unify(a, unify(b, c)) both succeed they give the same fact.
C14_UnifyAssociative ==
    (ret.op = "unify_then" /\ ret.res = "ok" /\ UnifyRight.ok) =>
        ret.val[1] = UnifyRight.val

\* Both groupings succeed on an open and a closed shape of three different
\* lengths.
C14_Witness ==
    /\ ret.op = "unify_then" /\ ret.res = "ok" /\ UnifyRight.ok
    /\ Cardinality({Len(args[k].shape.dims) : k \in 1..3}) = 3
    /\ \E k \in 1..3 : ~args[k].shape.open

\* C15: when unify(a, b) succeeds its result is below a and below b: it has
\* every Only datum type, dimension and value of either, at least as many
\* dimensions as either, and it is closed when either is closed.
C15_UnifyBelowBoth ==
    (ret.op = "unify" /\ ret.res = "ok") =>
        /\ LeqFact(ret.val[1], args[1])
        /\ LeqFact(ret.val[1], args[2])

\* An open and a closed shape of different lengths, unified.
C15_Witness ==
    /\ ret.op = "unify" /\ ret.res = "ok"
    /\ args[1].shape.open /\ ~args[2].shape.open
    /\ Len(args[1].shape.dims) < Len(args[2].shape.dims)
    /\ args[1].shape.dims # <<>>

\* At every position both shapes have, the dimensions are equal or one is Any.
DimsAgree(x, y) ==
    \A i \in 1..Len(x.dims) :
        i <= Len(y.dims) =>
            x.dims[i] = y.dims[i] \/ x.dims[i] = AnyFact \/ y.dims[i] = AnyFact

\* The positions only one shape has are beyond the end of an open shape.
ExtrasAllowed(x, y) ==
    /\ Len(x.dims) > Len(y.dims) => y.open
    /\ Len(y.dims) > Len(x.dims) => x.open

\* The pointwise unification of two shapes that agree.
PointwiseDims(x, y) ==
    [i \in 1..Max(Len(x.dims), Len(y.dims)) |->
        IF i > Len(y.dims) THEN x.dims[i]
        ELSE IF i > Len(x.dims) THEN y.dims[i]
        ELSE IF x.dims[i] = AnyFact THEN y.dims[i] ELSE x.dims[i]]

\* C16: unify_shape(x, y) succeeds exactly when the dimensions at the
\* positions both shapes have are equal or one of them is Any, and every
\* other position belongs to the longer shape while the shorter one is open;
\* the result then has the pointwise unified dimensions, the larger length,
\* and is open only if both are open.
C16_UnifyShape ==
    ret.op = "unify" =>
        LET x == args[1].shape
            y == args[2].shape
            r == unify_shape(x, y)
        IN /\ r.ok <=> (DimsAgree(x, y) /\ ExtrasAllowed(x, y))
           /\ r.ok => /\ r.val.dims = PointwiseDims(x, y)
                       /\ r.val.open = (x.open /\ y.open)

\* An open shape longer than a closed shape: unify fails on the shapes alone.
C16_Witness ==
    /\ ret.op = "unify" /\ ret.res = "err"
    /\ args[1].shape.open /\ ~args[2].shape.open
    /\ Len(args[1].shape.dims) > Len(args[2].shape.dims)
    /\ DimsAgree(args[1].shape, args[2].shape)
    /\ args[1].datatype = AnyFact /\ args[1].value = AnyFact

\* C17: unify is idempotent: unify(a, a) succeeds and gives a, on tensor
\* facts and on each component, an open shape staying open and a closed
\* shape closed.
C17_UnifyIdempotent ==
    (ret.op = "unify" /\ args[1] = args[2]) =>
        /\ ret.res = "ok" /\ ret.val[1] = args[1]
        /\ unify_datatype(args[1].datatype, args[1].datatype) = Ok(args[1].datatype)
        /\ unify_shape(args[1].shape, args[1].shape) = Ok(args[1].shape)
        /\ unify_value(args[1].value, args[1].value) = Ok(args[1].value)

\* An open shape with a known and an unknown dimension, unified with itself.
C17_Witness ==
    /\ ret.op = "unify" /\ ret.res = "ok" /\ args[1] = args[2]
    /\ args[1].shape.open
    /\ \E i, j \in 1..Len(args[1].shape.dims) :
          args[1].shape.dims[i] = AnyFact /\ args[1].shape.dims[j] # AnyFact

\* C18: the fully unknown fact is neutral for unify on both sides:
\* unify(a, Any) and unify(Any, a) succeed and give a, for datum types, for
\* values, and for shapes with the empty open shape as the unknown shape.
C18_AnyIsNeutral ==
    ret.op = "unify" =>
        /\ args[2] = TensorFactNew => (ret.res = "ok" /\ ret.val[1] = args[1])
        /\ args[1] = TensorFactNew => (ret.res = "ok" /\ ret.val[1] = args[2])
        /\ unify_datatype(args[1].datatype, AnyFact) = Ok(args[1].datatype)
        /\ unify_datatype(AnyFact, args[1].datatype) = Ok(args[1].datatype)
        /\ unify_value(args[1].value, AnyFact) = Ok(args[1].value)
        /\ unify_value(AnyFact, args[1].value) = Ok(args[1].value)
        /\ unify_shape(args[1].shape, ShapeOpen(<<>>)) = Ok(args[1].shape)
        /\ unify_shape(ShapeOpen(<<>>), args[1].shape) = Ok(args[1].shape)

\* The unknown fact on the left of a closed shape with dimensions.
C18_Witness ==
    /\ ret.op = "unify" /\ ret.res = "ok" /\ args[1] = TensorFactNew
    /\ ~args[2].shape.open /\ Len(args[2].shape.dims) = MaxRank

\* C19: when hint(node, fact) succeeds, the same call made again succeeds
\* and leaves every edge fact as the first call left it.
\* A step is a successful hint(node, fact) when it returns Ok for that node
\* and leaves the edges hint(node, fact) computes; every such fact is tried.
C19_HintIdempotent ==
    [][(ret'.op = "hint" /\ ret'.res = "ok" /\ hints_left' < hints_left) =>
          \A node \in {ret'.val[1]}, fact \in pool :
              hint(node, fact) = [res |-> "ok", edges |-> edges'] =>
                  HintOver(edges', node, fact) = [res |-> "ok", edges |-> edges']]_vars

\* A successful hint on a node whose edge already carried another hint.
C19_Witness ==
    /\ ret.op = "hint" /\ ret.res = "ok" /\ ret.val[1] < Len(nodes)
    /\ hints_left = 0
    /\ \E k \in 1..Len(edges) :
          /\ edges[k].from_node = ret.val[1]
          /\ \A f \in pool : edges[k].fact # f

\* The edges into node c, in the order of the edge list.
EdgesInto(c) == SelectSeq(edges, LAMBDA e : e.to_node = c)

\* C20: after Analyser::new succeeds the edge list holds one edge for each
\* (consumer, input position) of the model, from the producer to the
\* consumer, then one edge from the output to None; no other edge has
\* to_node = None, and every fact is fully unknown.
C20_NewBuildsEdges ==
    (ret.op = "new" /\ ret.res = "ok") =>
        /\ Len(edges) = SumLen([i \in 1..Len(model) |-> model[i].inputs]) + 1
        /\ \A i \in 1..Len(model) :
              /\ Len(EdgesInto(i - 1)) = Len(model[i].inputs)
              /\ \A k \in 1..Len(model[i].inputs) :
                    /\ EdgesInto(i - 1)[k].from_node = model[i].inputs[k][1]
                    /\ EdgesInto(i - 1)[k].from_out = model[i].inputs[k][2]
        /\ \A k \in 1..(Len(edges) - 1) : edges[k].to_node # None
        /\ edges[Len(edges)].from_node = ret.val[1]
        /\ edges[Len(edges)].to_node = None
        /\ \A k \in 1..Len(edges) : edges[k].fact = TensorFactNew

\* A model whose last node has two inputs and is not the output.
C20_Witness ==
    /\ ret.op = "new" /\ ret.res = "ok"
    /\ Len(model[Len(model)].inputs) = 2
    /\ ret.val[1] < Len(model) - 1

\* The node try_step is for in the current state, and the adjacency lists it
\* reads (sources) and writes (targets).
StepSources(n) ==
    IF current_direction THEN prev_edges[nodes[n + 1].id + 1]
    ELSE next_edges[nodes[n + 1].id + 1]

StepTargets(n) ==
    IF current_direction THEN next_edges[nodes[n + 1].id + 1]
    ELSE prev_edges[nodes[n + 1].id + 1]

StepInference(n) ==
    Infer(current_direction, nodes[n + 1].op_name, FactsOf(edges, StepSources(n)))

\* The fact the k-th target edge is unified with, and the unification.
StepFact(inferred, k) == IF current_direction THEN inferred[1] ELSE inferred[k]

StepUnified(n, inferred, k) ==
    unify(StepFact(inferred, k), edges[StepTargets(n)[k] + 1].fact)

\* The edges after the first m target edges of the step took their unified
\* facts, every other edge as it was.
TightenedUpTo(n, inferred, m) ==
    [e \in 1..Len(edges) |->
        IF \E k \in 1..m : StepTargets(n)[k] + 1 = e
        THEN [edges[e] EXCEPT !.fact =
                 StepUnified(n, inferred,
                             CHOOSE k \in 1..m : StepTargets(n)[k] + 1 = e).val]
        ELSE edges[e]]

\* C21: a run_step that fails leaves current_step, current_pass and
\* current_direction as they were; the edge whose unification failed keeps
\* its fact, the target edges before it keep their tightened facts, and no
\* other edge changes.
C21_FailedStepKeepsState ==
    [][(ret'.op = "run_step" /\ ret'.res = "err") =>
          /\ current_step' = current_step
          /\ current_pass' = current_pass
          /\ current_direction' = current_direction
          /\ LET n == StepNodeIndex(Engine)
                 inf == StepInference(n)
             IN IF ~inf.ok THEN edges' = edges
                ELSE /\ inf.val.some
                     /\ \E m \in 1..Len(StepTargets(n)) :
                           /\ ~StepUnified(n, inf.val.facts, m).ok
                           /\ \A k \in 1..(m - 1) : StepUnified(n, inf.val.facts, k).ok
                           /\ edges' = TightenedUpTo(n, inf.val.facts, m - 1)
                           /\ edges'[StepTargets(n)[m] + 1] = edges[StepTargets(n)[m] + 1]]_vars

\* A backward step that failed on the second input edge of a node after it
\* gave the first the fact of the node's output edge; both hints went to the
\* output edge and the second input edge.
C21_Witness ==
    /\ ret.op = "run_step" /\ ret.res = "err" /\ ~current_direction
    /\ hints_left = 0
    /\ \E i \in 1..Len(nodes) :
          /\ Len(prev_edges[i]) = 2 /\ Len(next_edges[i]) = 1
          /\ edges[next_edges[i][1] + 1].fact.datatype # AnyFact
          /\ edges[prev_edges[i][1] + 1].fact
                 = NoValue(edges[next_edges[i][1] + 1].fact)
          /\ edges[prev_edges[i][2] + 1].fact.datatype
                 \notin {AnyFact, edges[next_edges[i][1] + 1].fact.datatype}

\* C22: a successful step for node n gives every edge of next_edges[n]
\* (forward) the unification of inferred[0] with its fact, or the i-th edge
\* of prev_edges[n] (backward) the unification of inferred[i] with its fact;
\* no other edge, node, adjacency list or plan entry changes; it returns
\* true iff some edge fact differs from before, and when the operator gives
\* no result nothing changes and it returns false.
C22_StepEffect ==
    [][(ret'.op = "run_step" /\ ret'.res = "ok") =>
          /\ nodes' = nodes /\ plan' = plan
          /\ prev_edges' = prev_edges /\ next_edges' = next_edges
          /\ ret'.changed = (\E e \in 1..Len(edges) : edges'[e].fact # edges[e].fact)
          /\ LET n == StepNodeIndex(Engine)
                 inf == StepInference(n)
             IN /\ inf.ok
                /\ IF ~inf.val.some THEN edges' = edges /\ ~ret'.changed
                   ELSE /\ \A k \in 1..Len(StepTargets(n)) :
                              StepUnified(n, inf.val.facts, k).ok
                        /\ edges' = TightenedUpTo(n, inf.val.facts,
                                                  Len(StepTargets(n)))]_vars

\* A backward step that returned true and left the two input edges of a
\* node with different facts.
C22_Witness ==
    /\ ret.op = "run_step" /\ ret.res = "ok" /\ ret.changed
    /\ ~ret.visits[1].forward
    /\ \E i \in 1..Len(nodes) :
          /\ ret.visits[1].node = i - 1
          /\ Len(prev_edges[i]) = 2
          /\ edges[prev_edges[i][1] + 1].fact # edges[prev_edges[i][2] + 1].fact
          /\ edges[prev_edges[i][2] + 1].fact # TensorFactNew

\* The node list and the plan are those Analyser::new built: no prune_unused
\* or reset_plan has changed them.
AsBuilt == built /\ nodes = model /\ PlanForNodes(model, output) = Ok(plan)

\* C23: a new analyser starts with pass 0, step 0 and direction forward,
\* and in every state reached through run_step, run_two_passes and run,
\* current_step < |plan| and current_direction is forward exactly when
\* current_pass is even.
C23_StepAndParity ==
    /\ (ret.op = "new" /\ ret.res = "ok") =>
           (current_pass = 0 /\ current_step = 0 /\ current_direction)
    /\ AsBuilt =>
           /\ current_step < Len(plan)
           /\ current_direction <=> (current_pass % 2 = 0)

\* C24: every node id in the plan is an index into the node list and
\* denotes the node it denoted when the plan was computed: prune_unused
\* keeps each plan entry on the node (by name) it was on, and a run_step
\* never indexes past the end of the node list.
C24_PlanFollowsPrune ==
    [][/\ (ret'.op = "prune_unused" /\ ret'.res = "ok" /\ PlanFits) =>
             \A k \in 1..Len(plan') :
                 /\ plan'[k] >= 0 /\ plan'[k] < Len(nodes')
                 /\ nodes'[plan'[k] + 1].name = nodes[plan[k] + 1].name
       /\ ret'.op = "run_step" => ret'.res # "panic"]_vars

\* C25: after any sequence of operations, prune_unused included, every
\* edge's id is its position in the edge list, as right after construction.
C25_EdgeIdIsPosition ==
    built => \A k \in 1..Len(edges) : edges[k].id = k - 1
====
